---- MODULE Spec2Model ----
(***************************************************************************)
(* A model of create_filter_cascade/certs_to_crlite.py: the reconciliation *)
(* of per-issuer known/revoked serial files into the two global key lists  *)
(* (genCertLists), the key-list cache (saveCertLists / loadCertLists) and   *)
(* the orchestration in main (diff set-up, generateMLBF, verifyMLBF,        *)
(* saveMLBF, saveStats).                                                    *)
(*                                                                         *)
(* Strings are sequences of characters, so that concatenation, splitext    *)
(* and line splitting are computed and not assumed.  A multi-letter token  *)
(* such as "revoked" stands for a run of letters that holds no dot and no  *)
(* line terminator.                                                        *)
(***************************************************************************)
EXTENDS Naturals, Sequences, FiniteSets, TLC

VARIABLES
    args,             \* the argparse namespace, as far as main reads it
    knownDir,         \* the files under args.knownPath
    revokedDir,       \* the files under args.revokedPath
    keysRevoked,      \* the file args.revokedKeys
    keysValid,        \* the file args.validKeys
    prevFiles,        \* which files of the previous build exist
    outDirExists,     \* whether <certPath>/<id>/<outDirName>/ exists
    revoked_certs,    \* main's list revoked_certs
    nonrevoked_certs, \* main's list nonrevoked_certs
    stats,            \* main's dict stats
    cascade,          \* the FilterCascade object main holds, once built
    writes,           \* the output files written so far, in order
    savedCerts,       \* history: the two lists last handed to saveCertLists
    lastCheck,        \* history: how the last cascade.check call ended
    pc                \* main's position

vars == <<args, knownDir, revokedDir, keysRevoked, keysValid, prevFiles,
          outDirExists, revoked_certs, nonrevoked_certs, stats, cascade,
          writes, savedCerts, lastCheck, pc>>

(***************************************************************************)
(* Bounds of the model.                                                    *)
(***************************************************************************)
MaxKnownFiles == 2
MaxRevokedFiles == 2
MaxStrLen == 1
MaxListLen == 2

(***************************************************************************)
(* Strings, sets and sequences.                                            *)
(***************************************************************************)
LF == "\n"
CR == "\r"
DOT == "."

Range(s) == {s[i] : i \in 1..Len(s)}

NoDuplicates(s) == \A i, j \in 1..Len(s) : s[i] = s[j] => i = j

\* Iterating a Python set: the orders it may take.  The order follows the
\* hashes of the strings, which differ from process to process.
RECURSIVE IterOrders(_)
IterOrders(S) ==
    IF S = {} THEN {<<>>}
    ELSE UNION { {<<x>> \o rest : rest \in IterOrders(S \ {x})} : x \in S }

\* os.path.splitext(filename)[0]: cut at the last dot, unless only dots
\* come before it.
LastDot(name) ==
    LET D == {i \in 1..Len(name) : name[i] = DOT}
    IN  IF D = {} THEN 0 ELSE CHOOSE i \in D : \A j \in D : j <= i

splitext(name) ==
    LET d == LastDot(name)
    IN  IF d = 0 \/ (\A j \in 1..(d - 1) : name[j] = DOT)
        THEN name
        ELSE SubSeq(name, 1, d - 1)

(***************************************************************************)
(* The record store.  A directory is the set of the files under it; a     *)
(* file is [dir, name, content], where content says whether the file       *)
(* parses as JSON and which serials (after str()) it lists.  The order in  *)
(* which os.walk meets the files is chosen when the directory is walked.   *)
(***************************************************************************)
Top == "."
Sub == "sub"

Unparseable == [parses |-> FALSE, serials |-> {}]
Parsed(S) == [parses |-> TRUE, serials |-> S]

None == [none |-> TRUE, certs |-> {}]
Some(S) == [none |-> FALSE, certs |-> S]

\* if certlist: (neither None nor empty)
Truthy(certlist) == ~certlist.none /\ certlist.certs # {}

\* getCertList on a file that is there: the serials prefixed with the aki,
\* or None when json.load or the iteration fails.
ReadCerts(content, aki) ==
    IF content.parses
    THEN Some({aki \o s : s \in content.serials})
    ELSE None

\* getCertList(certpath, aki), with certpath = dirname/name in directory d.
getCertList(d, dirname, name, aki) ==
    LET F == {f \in d : f.dir = dirname /\ f.name = name}
    IN  IF F = {} THEN None
        ELSE ReadCerts((CHOOSE f \in F : TRUE).content, aki)

initAKIStats(st, aki) ==
    [st EXCEPT !["AKIs"] =
        (aki :> [known |-> 0, revoked |-> 0, knownnotrevoked |-> 0,
                 knownrevoked |-> 0, crl |-> FALSE]) @@ st["AKIs"]]

\* stats = {} in main, and the keys genCertLists sets first.
EmptyStats == [k \in {} |-> 0]

ResetStats(st) ==
    [k \in DOMAIN st \cup {"knownrevoked", "knownnotrevoked", "revoked",
                           "known", "nocrl", "AKIs"} |->
        IF k = "AKIs" THEN <<>>
        ELSE IF k \in {"knownrevoked", "knownnotrevoked", "revoked",
                       "known", "nocrl"} THEN 0
        ELSE st[k]]

\* The state genCertLists carries through its two loops.
GenStart(st, rev, nonrev) ==
    [stats |-> ResetStats(st), revoked_certs |-> rev,
     nonrevoked_certs |-> nonrev, processedAKIs |-> {}]

\* knownNotRevoked = knownlist - revlist
knownNotRevoked(knownlist, revlist) == knownlist \ revlist

\* A variant: every revocation is listed, known or not.
knownRevoked_AllRevocations(knownlist, revlist) == revlist

\* knownRevoked = knownlist & revlist
knownRevoked(knownlist, revlist) == knownlist \cap revlist

\* One file of the first loop (over knownPath): the states it may leave,
\* one for each order in which the two sets are appended.
KnownFileStep(g, file, rdir, excludeaki) ==
    LET aki       == splitext(file.name)
        st0       == initAKIStats(g.stats, aki)
        knownread == ReadCerts(file.content, aki)
        knownlist == IF Truthy(knownread) THEN knownread.certs ELSE {}
        st1       == [st0 EXCEPT !["known"] = @ + Cardinality(knownlist),
                                 !["AKIs"][aki].known = Cardinality(knownlist)]
        revread   == getCertList(rdir, Top, aki \o <<DOT, "revoked">>, aki)
        revlist   == IF Truthy(revread) THEN revread.certs ELSE {}
        st2       == IF Truthy(revread)
                     THEN [st1 EXCEPT !["revoked"] = @ + Cardinality(revlist),
                                      !["AKIs"][aki].crl = TRUE]
                     ELSE [st1 EXCEPT !["nocrl"] = @ + 1]
        knr       == knownNotRevoked(knownlist, revlist)
        kr        == knownRevoked(knownlist, revlist)
        st3       == [st2 EXCEPT
                        !["AKIs"][aki].revoked = Cardinality(revlist),
                        !["knownnotrevoked"] = @ + Cardinality(knr),
                        !["knownrevoked"] = @ + Cardinality(kr),
                        !["AKIs"][aki].knownnotrevoked =
                            Cardinality(knr),
                        !["AKIs"][aki].knownrevoked =
                            Cardinality(kr)]
    IN  IF aki \in excludeaki THEN {g}
        ELSE { [stats |-> st3,
                revoked_certs |-> g.revoked_certs \o krs,
                nonrevoked_certs |-> g.nonrevoked_certs \o knrs,
                processedAKIs |-> g.processedAKIs \cup {aki}] :
               krs \in IterOrders(kr), knrs \in IterOrders(knr) }

\* A variant: the second loop does not look at the exclusion list.
SkipRevokedFile_ProcessedOnly(aki, excludeaki, processedAKIs) ==
    aki \in processedAKIs

\* The second loop passes over a file: its aki is excluded, or was
\* processed in the first loop.
SkipRevokedFile(aki, excludeaki, processedAKIs) ==
    aki \in excludeaki \/ aki \in processedAKIs

\* One file of the second loop (over revokedPath).
RevokedFileStep(g, file, excludeaki) ==
    LET aki     == splitext(file.name)
        st0     == initAKIStats(g.stats, aki)
        revlist == ReadCerts(file.content, aki)
        st1     == IF revlist.none
                   THEN [st0 EXCEPT !["nocrl"] = @ + 1]
                   ELSE [st0 EXCEPT
                           !["revoked"] = @ + Cardinality(revlist.certs),
                           !["AKIs"][aki].crl = TRUE,
                           !["AKIs"][aki].revoked =
                               Cardinality(revlist.certs)]
    IN  IF SkipRevokedFile(aki, excludeaki, g.processedAKIs) THEN g
        ELSE [g EXCEPT !.stats = st1]

\* The files os.walk may yield next, of the files F still to come: top-down,
\* the files of the directory itself before those of a sub-directory, and
\* within one directory in the order the file system lists them.
WalkNext(F) ==
    {f \in F : f.dir = Top \/ (\A h \in F : h.dir # Top)}

RECURSIVE KnownLoop(_, _, _, _)
KnownLoop(g, F, rdir, excludeaki) ==
    IF F = {} THEN {g}
    ELSE UNION { UNION { KnownLoop(g2, F \ {f}, rdir, excludeaki) :
                            g2 \in KnownFileStep(g, f, rdir, excludeaki) } :
                 f \in WalkNext(F) }

RECURSIVE RevokedLoop(_, _, _)
RevokedLoop(g, F, excludeaki) ==
    IF F = {} THEN {g}
    ELSE UNION { RevokedLoop(RevokedFileStep(g, f, excludeaki), F \ {f},
                             excludeaki) :
                 f \in WalkNext(F) }

\* genCertLists: what it may leave in stats and in the two lists, over the
\* walk orders of the two directories and the iteration orders of the sets.
genCertLists(kdir, rdir, excludeaki, st, rev, nonrev) ==
    UNION { RevokedLoop(g, rdir, excludeaki) :
              g \in KnownLoop(GenStart(st, rev, nonrev), kdir, rdir,
                              excludeaki) }

(***************************************************************************)
(* The key-list cache: text files, written with "%s\n" and read line by    *)
(* line in text mode (universal newlines), each line cut by line[:-1].     *)
(***************************************************************************)
NoFile == [exists |-> FALSE, text |-> <<>>]
File(text) == [exists |-> TRUE, text |-> text]

\* for k in certs: file.write("%s\n" % k)
RECURSIVE WriteLines(_)
WriteLines(certs) ==
    IF certs = <<>> THEN <<>>
    ELSE Head(certs) \o <<LF>> \o WriteLines(Tail(certs))

\* Reading in text mode: "\r\n" and a lone "\r" arrive as "\n".
RECURSIVE UniversalNewlines(_)
UniversalNewlines(text) ==
    IF text = <<>> THEN <<>>
    ELSE IF Head(text) = CR
         THEN IF Len(text) >= 2 /\ text[2] = LF
              THEN <<LF>> \o UniversalNewlines(Tail(Tail(text)))
              ELSE <<LF>> \o UniversalNewlines(Tail(text))
         ELSE <<Head(text)>> \o UniversalNewlines(Tail(text))

\* for line in file: the lines, each with its terminator; the last one may
\* have none.
RECURSIVE FileLines(_, _)
FileLines(text, line) ==
    IF text = <<>>
    THEN IF line = <<>> THEN <<>> ELSE <<line>>
    ELSE IF Head(text) = LF
         THEN <<Append(line, LF)>> \o FileLines(Tail(text), <<>>)
         ELSE FileLines(Tail(text), Append(line, Head(text)))

\* A variant: the line is kept whole, terminator included.
DropLast_Whole(line) == line

\* line[:-1]
DropLast(line) == SubSeq(line, 1, Len(line) - 1)

\* certs.clear(); for line in file: certs.append(line[:-1])
ReadLines(text) ==
    LET lines == FileLines(UniversalNewlines(text), <<>>)
    IN  [i \in 1..Len(lines) |-> DropLast(lines[i])]

(***************************************************************************)
(* main.                                                                   *)
(***************************************************************************)
NoPath == "None"
NoCascade == [origin |-> "none", layers |-> 0, bits |-> 0]

\* What layerCount() and bitCount() of the library may report.
LibraryShapes == {[layers |-> 0, bits |-> 0], [layers |-> 1, bits |-> 1]}

\* How cascade.check may end.
CheckOutcomes == {"returns True", "returns False", "raises"}

Errors == {"ZeroDivisionError", "AssertionError", "FileNotFoundError"}

\* A variant: saveStats is called before the filter is verified and saved.
MainFlow_StatsFirst(at, a, bits) ==
    CASE at = "load"      -> "diff"
      [] at = "gen"       -> IF a.cachekeys THEN "savecerts" ELSE "diff"
      [] at = "savecerts" -> "diff"
      [] at = "diff"      -> "generate"
      [] at = "generate"  -> "stats"
      [] at = "stats"     -> IF bits > 0 THEN "verify" ELSE "done"
      [] at = "verify"    -> "save"
      [] at = "save"      -> "done"

\* The order of main's steps.
MainFlow(at, a, bits) ==
    CASE at = "load"      -> "diff"
      [] at = "gen"       -> IF a.cachekeys THEN "savecerts" ELSE "diff"
      [] at = "savecerts" -> "diff"
      [] at = "diff"      -> "generate"
      [] at = "generate"  -> IF bits > 0 THEN "verify" ELSE "stats"
      [] at = "verify"    -> "save"
      [] at = "save"      -> "stats"
      [] at = "stats"     -> "done"

\* args.cachekeys == True and isfile(revokedKeys) and isfile(validKeys)
UseCache == args.cachekeys /\ keysRevoked.exists /\ keysValid.exists

\* loadCertLists(args, revoked_certs=..., nonrevoked_certs=...)
loadCertLists ==
    /\ revoked_certs' = ReadLines(keysRevoked.text)
    /\ nonrevoked_certs' = ReadLines(keysValid.text)

LoadCertLists ==
    /\ pc = "certs"
    /\ UseCache
    /\ loadCertLists
    /\ pc' = MainFlow("load", args, 0)
    /\ UNCHANGED <<args, knownDir, revokedDir, keysRevoked, keysValid,
                   prevFiles, outDirExists, stats, cascade, writes,
                   savedCerts, lastCheck>>

GenCertLists ==
    /\ pc = "certs"
    /\ ~UseCache
    /\ \E g \in genCertLists(knownDir, revokedDir, args.excludeaki, stats,
                             revoked_certs, nonrevoked_certs) :
           /\ stats' = g.stats
           /\ revoked_certs' = g.revoked_certs
           /\ nonrevoked_certs' = g.nonrevoked_certs
    /\ pc' = MainFlow("gen", args, 0)
    /\ UNCHANGED <<args, knownDir, revokedDir, keysRevoked, keysValid,
                   prevFiles, outDirExists, cascade, writes, savedCerts,
                   lastCheck>>

\* saveCertLists(args, revoked_certs=rev, nonrevoked_certs=nonrev)
saveCertLists(rev, nonrev) ==
    /\ outDirExists' = TRUE
    /\ keysRevoked' = File(WriteLines(rev))
    /\ keysValid' = File(WriteLines(nonrev))
    /\ writes' = writes \o <<[file |-> "keys-revoked"], [file |-> "keys-valid"]>>
    /\ savedCerts' = <<rev, nonrev>>

SaveCertLists ==
    /\ pc = "savecerts"
    /\ saveCertLists(revoked_certs, nonrevoked_certs)
    /\ pc' = MainFlow("savecerts", args, 0)
    /\ UNCHANGED <<args, knownDir, revokedDir, prevFiles, revoked_certs,
                   nonrevoked_certs, stats, cascade, lastCheck>>

\* A variant: one of the two files is enough.
PrevBuildUsable_Either(files) == files.meta \/ files.base

\* isfile(diffMetaPath) and isfile(diffBasePath)
PrevBuildUsable(files) == files.meta /\ files.base

SetupDiff ==
    /\ pc = "diff"
    /\ args' = IF args.previd /\ PrevBuildUsable(prevFiles)
               THEN [args EXCEPT !.diffMetaFile = "previd/filter.meta",
                                 !.diffBaseFile = "previd/filter",
                                 !.patchFile = "filter.previd.patch"]
               ELSE args
    /\ pc' = MainFlow("diff", args, 0)
    /\ UNCHANGED <<knownDir, revokedDir, keysRevoked, keysValid, prevFiles,
                   outDirExists, revoked_certs, nonrevoked_certs, stats,
                   cascade, writes, savedCerts, lastCheck>>

\* getFPRs: [len(revoked) / (sqrt(2) * len(nonrevoked)), 0.5], kept as the
\* two counts of the quotient; the division needs a non-zero divisor.
getFPRs(rev, nonrev) == [revoked |-> Len(rev), nonrevoked |-> Len(nonrev)]

GenerateMLBF ==
    /\ pc = "generate"
    /\ IF Len(nonrevoked_certs) = 0
       THEN /\ pc' = "ZeroDivisionError"
            /\ UNCHANGED <<stats, cascade>>
       ELSE \E shape \in LibraryShapes :
            /\ cascade' = [origin |-> IF args.diffMetaFile # NoPath
                                      THEN "loadDiffMeta"
                                      ELSE "cascade_with_characteristics",
                           layers |-> shape.layers, bits |-> shape.bits]
            /\ stats' = [k \in {"mlbf_fprs", "mlbf_version", "mlbf_layers",
                                "mlbf_bits"} |->
                            CASE k = "mlbf_fprs" ->
                                     getFPRs(revoked_certs, nonrevoked_certs)
                              [] k = "mlbf_version" -> 1
                              [] k = "mlbf_layers" -> shape.layers
                              [] k = "mlbf_bits" -> shape.bits] @@ stats
            /\ pc' = MainFlow("generate", args, shape.bits)
    /\ UNCHANGED <<args, knownDir, revokedDir, keysRevoked, keysValid,
                   prevFiles, outDirExists, revoked_certs, nonrevoked_certs,
                   writes, savedCerts, lastCheck>>

\* Whether verifyMLBF goes on after cascade.check ended with outcome.
CheckLetsThrough(outcome) == outcome # "raises"

VerifyMLBF ==
    /\ pc = "verify"
    /\ IF args.noVerify
       THEN /\ pc' = MainFlow("verify", args, cascade.bits)
            /\ UNCHANGED lastCheck
       ELSE \E outcome \in CheckOutcomes :
            /\ lastCheck' = outcome
            /\ pc' = IF CheckLetsThrough(outcome)
                     THEN MainFlow("verify", args, cascade.bits)
                     ELSE "AssertionError"
    /\ UNCHANGED <<args, knownDir, revokedDir, keysRevoked, keysValid,
                   prevFiles, outDirExists, revoked_certs, nonrevoked_certs,
                   stats, cascade, writes, savedCerts>>

\* Whether saveMLBF goes on to bsdiff4.file_diff.
WritesPatch(a) == a.diffBaseFile # NoPath

SaveMLBF ==
    /\ pc = "save"
    /\ outDirExists' = TRUE
    /\ writes' = writes \o <<[file |-> "filter"], [file |-> "filter.meta"]>>
                        \o (IF WritesPatch(args)
                            THEN <<[file |-> args.patchFile]>> ELSE <<>>)
    /\ stats' = [k \in {"mlbf_filesize", "mlbf_metafilesize"}
                       \cup (IF WritesPatch(args) THEN {"mlbf_diffsize"}
                             ELSE {}) |-> "st_size"] @@ stats
    /\ pc' = MainFlow("save", args, cascade.bits)
    /\ UNCHANGED <<args, knownDir, revokedDir, keysRevoked, keysValid,
                   prevFiles, revoked_certs, nonrevoked_certs, cascade,
                   savedCerts, lastCheck>>

\* open(".../stats.json", 'w') needs the output directory.
SaveStats ==
    /\ pc = "stats"
    /\ IF outDirExists
       THEN /\ writes' = Append(writes, [file |-> "stats.json",
                                         json |-> stats])
            /\ pc' = MainFlow("stats", args, cascade.bits)
       ELSE /\ pc' = "FileNotFoundError"
            /\ UNCHANGED writes
    /\ UNCHANGED <<args, knownDir, revokedDir, keysRevoked, keysValid,
                   prevFiles, outDirExists, revoked_certs, nonrevoked_certs,
                   stats, cascade, savedCerts, lastCheck>>

(***************************************************************************)
(* The inputs: record stores, argument values, files left by earlier runs. *)
(***************************************************************************)
A == <<"A">>
A1 == <<"A", "1">>
Serials == {<<"1">>, <<"1", "1">>}
Contents == {Unparseable, Parsed({}), Parsed({<<"1">>}), Parsed(Serials)}

\* The files a walk of knownPath may meet: two names and a file of a
\* sub-directory reduce to the issuer A.
KnownPaths ==
    { [dir |-> Top, name |-> <<"A", DOT, "known">>],
      [dir |-> Top, name |-> <<"A", DOT, "json">>],
      [dir |-> Top, name |-> <<"A", "1", DOT, "known">>],
      [dir |-> Sub, name |-> <<"A", DOT, "known">>] }

\* The files a walk of revokedPath may meet.
RevokedPaths ==
    { [dir |-> Top, name |-> <<"A", DOT, "revoked">>],
      [dir |-> Top, name |-> <<"A", "1", DOT, "revoked">>],
      [dir |-> Sub, name |-> <<"A", DOT, "revoked">>] }

\* Every directory holding at most n of the files of paths.
DirsOn(paths, n) ==
    UNION { { {[dir |-> q.dir, name |-> q.name, content |-> c[q]] : q \in T} :
                c \in [T -> Contents] }
          : T \in {U \in SUBSET paths : Cardinality(U) <= n} }

Args(excl, cache, noverify, prev) ==
    [excludeaki |-> excl, cachekeys |-> cache, noVerify |-> noverify,
     previd |-> prev, diffMetaFile |-> NoPath, diffBaseFile |-> NoPath,
     patchFile |-> NoPath]

\* The state main starts from, whatever the inputs.
MainStart ==
    /\ revoked_certs = <<>>
    /\ nonrevoked_certs = <<>>
    /\ stats = EmptyStats
    /\ cascade = NoCascade
    /\ writes = <<>>
    /\ savedCerts = <<>>
    /\ lastCheck = "none"
    /\ pc = "certs"

\* Key-list files as an earlier run may have left them.
CachedRevoked == {<<>>, <<A \o <<"1">>>>}
CachedValid == {<<>>, <<A \o <<"1", "1">>>>}

Init ==
    /\ MainStart
    /\ args \in {Args(excl, cache, noverify, prev) :
                    excl \in {{}, {A}}, cache \in BOOLEAN,
                    noverify \in BOOLEAN, prev \in BOOLEAN}
    /\ knownDir \in DirsOn({[dir |-> Top, name |-> <<"A", DOT, "known">>]}, 1)
    /\ revokedDir \in
           DirsOn({[dir |-> Top, name |-> <<"A", DOT, "revoked">>]}, 1)
    /\ outDirExists \in BOOLEAN
    /\ keysRevoked \in {NoFile} \cup
           {File(WriteLines(l)) : l \in IF outDirExists THEN CachedRevoked ELSE {}}
    /\ keysValid \in {NoFile} \cup
           {File(WriteLines(l)) : l \in IF outDirExists THEN CachedValid ELSE {}}
    /\ prevFiles \in {f \in [meta : BOOLEAN, base : BOOLEAN] :
                         (f.meta \/ f.base) => args.previd}

Next ==
    \/ LoadCertLists
    \/ GenCertLists
    \/ SaveCertLists
    \/ SetupDiff
    \/ GenerateMLBF
    \/ VerifyMLBF
    \/ SaveMLBF
    \/ SaveStats

Spec == Init /\ [][Next]_vars

(***************************************************************************)
(* genCertLists alone, over richer record stores.                          *)
(***************************************************************************)
InitGen ==
    /\ MainStart
    /\ args \in {Args(excl, FALSE, FALSE, FALSE) : excl \in SUBSET {A, A1}}
    /\ knownDir \in DirsOn(KnownPaths, MaxKnownFiles)
    /\ revokedDir \in DirsOn(RevokedPaths, MaxRevokedFiles)
    /\ outDirExists = FALSE
    /\ keysRevoked = NoFile
    /\ keysValid = NoFile
    /\ prevFiles = [meta |-> FALSE, base |-> FALSE]

NextGen == GenCertLists

SpecGen == InitGen /\ [][NextGen]_vars

(***************************************************************************)
(* The key-list cache alone: saveCertLists on any two lists of strings,    *)
(* then loadCertLists into lists that hold something else.                 *)
(***************************************************************************)
Chars == {"a", LF, CR}

RECURSIVE SeqsUpTo(_, _)
SeqsUpTo(S, n) ==
    IF n = 0 THEN {<<>>}
    ELSE LET shorter == SeqsUpTo(S, n - 1)
         IN  shorter \cup {Append(q, x) : q \in shorter, x \in S}

Strings == SeqsUpTo(Chars, MaxStrLen)
KeyLists == SeqsUpTo(Strings, MaxListLen)

InitCache ==
    /\ args = Args({}, TRUE, FALSE, FALSE)
    /\ knownDir = {}
    /\ revokedDir = {}
    /\ outDirExists = FALSE
    /\ keysRevoked = NoFile
    /\ keysValid = NoFile
    /\ prevFiles = [meta |-> FALSE, base |-> FALSE]
    /\ revoked_certs \in {<<>>, << <<"a">> >>}
    /\ nonrevoked_certs \in {<<>>, << <<"a">> >>}
    /\ stats = EmptyStats
    /\ cascade = NoCascade
    /\ writes = <<>>
    /\ savedCerts = <<>>
    /\ lastCheck = "none"
    /\ pc = "cache"

CacheSave ==
    /\ pc = "cache"
    /\ \E rev \in KeyLists, nonrev \in SeqsUpTo(Strings, 1) :
           saveCertLists(rev, nonrev)
    /\ pc' = "saved"
    /\ UNCHANGED <<args, knownDir, revokedDir, prevFiles, revoked_certs,
                   nonrevoked_certs, stats, cascade, lastCheck>>

CacheLoad ==
    /\ pc = "saved"
    /\ loadCertLists
    /\ pc' = "loaded"
    /\ UNCHANGED <<args, knownDir, revokedDir, keysRevoked, keysValid,
                   prevFiles, outDirExists, stats, cascade, writes,
                   savedCerts, lastCheck>>

NextCache == CacheSave \/ CacheLoad

SpecCache == InitCache /\ [][NextCache]_vars

(***************************************************************************)
(* Properties of genCertLists (checked under SpecGen).                     *)
(***************************************************************************)
GenDone == pc # "certs"

\* The fingerprints a file stands for: none when it does not parse.
Prefixed(aki, content) ==
    IF content.parses THEN {aki \o s : s \in content.serials} ELSE {}

KnownFilesOf(aki) == {f \in knownDir : splitext(f.name) = aki}

RevokedFilesOf(aki) == {f \in revokedDir : splitext(f.name) = aki}

\* The issuers the first loop works on.
KnownIssuers == {splitext(f.name) : f \in knownDir} \ args.excludeaki

KnownSet(aki) == UNION {Prefixed(aki, f.content) : f \in KnownFilesOf(aki)}

\* The issuer's revocations: those of <revokedPath>/<aki>.revoked.
RevokedSet(aki) ==
    UNION {Prefixed(aki, f.content) :
              f \in {h \in revokedDir :
                        /\ h.dir = Top
                        /\ h.name = aki \o <<DOT, "revoked">>}}

\* C1: after genCertLists the fingerprints of revoked_certs are the union
\* of known & revoked over the non-excluded issuers with a file under
\* knownPath, those of nonrevoked_certs the union of known - revoked, an
\* absent or unparseable revoked file counting as empty; so an issuer with
\* only a known file gives its whole known set to nonrevoked_certs, and
\* every fingerprint of either list is a known one of such an issuer.
C1_ListsAreKnownSplitByRevoked ==
    GenDone =>
        /\ Range(revoked_certs) =
               UNION {KnownSet(aki) \cap RevokedSet(aki) : aki \in KnownIssuers}
        /\ Range(nonrevoked_certs) =
               UNION {KnownSet(aki) \ RevokedSet(aki) : aki \in KnownIssuers}
        /\ \A aki \in KnownIssuers :
               RevokedFilesOf(aki) = {} =>
                   KnownSet(aki) \subseteq Range(nonrevoked_certs)
        /\ Range(revoked_certs) \cup Range(nonrevoked_certs)
               \subseteq UNION {KnownSet(aki) : aki \in KnownIssuers}

\* C1's case: both lists are filled, and A1 has revocations but no known
\* file.
C1_Witness ==
    /\ GenDone
    /\ revoked_certs # <<>>
    /\ nonrevoked_certs # <<>>
    /\ KnownFilesOf(A1) = {}
    /\ RevokedSet(A1) # {}
    /\ A1 \notin args.excludeaki

\* No fingerprint belongs to two issuers.
FingerprintsOfOneIssuer ==
    \A a, b \in KnownIssuers : a # b => KnownSet(a) \cap KnownSet(b) = {}

\* C2: after genCertLists, whatever the two directories hold, the two
\* lists share no fingerprint and none of them holds a fingerprint twice.
\* Stated for the stores in which no two issuers share a fingerprint.
C2_DisjointAndDuplicateFree ==
    (GenDone /\ FingerprintsOfOneIssuer) =>
        /\ Range(revoked_certs) \cap Range(nonrevoked_certs) = {}
        /\ NoDuplicates(revoked_certs)
        /\ NoDuplicates(nonrevoked_certs)

\* The issuers with a known file whose <aki>.revoked is there and parses
\* to the empty list.
EmptyCrlIssuers ==
    {aki \in KnownIssuers :
        \E f \in revokedDir :
            /\ f.dir = Top
            /\ f.name = aki \o <<DOT, "revoked">>
            /\ f.content = Parsed({})}

\* C3: for a non-excluded issuer with a known file whose revoked file
\* parses to the empty list, genCertLists records crl = true and
\* revoked = 0, does not count it in nocrl, and puts its whole known set
\* into nonrevoked_certs.
C3_EmptyCrlIsACrl ==
    GenDone =>
        \A aki \in EmptyCrlIssuers :
            /\ stats["AKIs"][aki].crl = TRUE
            /\ stats["AKIs"][aki].revoked = 0
            /\ KnownSet(aki) \subseteq Range(nonrevoked_certs)
            /\ (Cardinality(knownDir) = 1 /\ Cardinality(revokedDir) = 1) =>
                   stats["nocrl"] = 0

\* The directory d without the files of issuer x.
WithoutIssuer(d, x) == {f \in d : splitext(f.name) # x}

\* What genCertLists, started as main starts it, may leave.
Results(kdir, rdir, excludeaki) ==
    {<<g.revoked_certs, g.nonrevoked_certs, g.stats>> :
        g \in genCertLists(kdir, rdir, excludeaki, EmptyStats, <<>>, <<>>)}

\* C4, as stated: genCertLists with X excluded leaves the lists and the
\* statistics that a run without that exclusion leaves on the store from
\* which the known and revoked files of X are removed, whichever run that
\* is.
C4_SameAsEveryRunWithoutFiles ==
    GenDone =>
        \A x \in args.excludeaki :
            \A r \in Results(WithoutIssuer(knownDir, x),
                             WithoutIssuer(revokedDir, x),
                             args.excludeaki \ {x}) :
                <<revoked_certs, nonrevoked_certs, stats>> = r

\* C4, amended: genCertLists with X excluded and genCertLists without that
\* exclusion on the store without the known and revoked files of X have
\* the same possible results (lists and statistics), over the walk orders
\* and set iteration orders; what the run left is one of them, and the
\* per-AKI map has no entry for X.
C4_ExclusionIsRemoval ==
    GenDone =>
        \A x \in args.excludeaki :
            LET removed == Results(WithoutIssuer(knownDir, x),
                                   WithoutIssuer(revokedDir, x),
                                   args.excludeaki \ {x})
            IN  /\ <<revoked_certs, nonrevoked_certs, stats>> \in removed
                /\ Results(knownDir, revokedDir, args.excludeaki) = removed
                /\ x \notin DOMAIN stats["AKIs"]

\* C4's case: A is excluded and has a known and a revoked file, A1 is not
\* and fills a list.
C4_Witness ==
    /\ GenDone
    /\ args.excludeaki = {A}
    /\ KnownSet(A) # {}
    /\ RevokedFilesOf(A) # {}
    /\ RevokedSet(A1) # {}
    /\ revoked_certs # <<>>

(***************************************************************************)
(* The key-list cache (checked under SpecCache).                           *)
(***************************************************************************)
NoLineTerminator(certs) ==
    \A i \in 1..Len(certs) : \A j \in 1..Len(certs[i]) :
        certs[i][j] \notin {LF, CR}

\* C5: saveCertLists then loadCertLists on the same paths gives back the
\* two saved lists, same strings in the same order, when no string holds
\* a line terminator, whatever the lists held before the load.
C5_CacheRoundTrip ==
    (pc = "loaded" /\ NoLineTerminator(savedCerts[1])
                   /\ NoLineTerminator(savedCerts[2])) =>
        /\ revoked_certs = savedCerts[1]
        /\ nonrevoked_certs = savedCerts[2]

\* C5's case: a repeated string and an empty string were saved and loaded.
C5_Witness ==
    /\ pc = "loaded"
    /\ savedCerts = << << <<"a">>, <<"a">> >>, << <<>> >> >>
    /\ revoked_certs = << <<"a">>, <<"a">> >>
    /\ nonrevoked_certs = << <<>> >>

(***************************************************************************)
(* Properties of main (checked under Spec).                                *)
(***************************************************************************)
Written(name) == \E i \in 1..Len(writes) : writes[i].file = name

FilterFilesWritten ==
    Written("filter") \/ Written("filter.meta") \/ Written("filter.previd.patch")

\* C6: with verification enabled and a filter of non-zero bit count, a
\* check that reports a violation, by raising or by returning false, ends
\* the run before saveMLBF: no filter, metadata or patch file is written.
C6_FailedCheckAborts ==
    (~args.noVerify /\ lastCheck \in {"returns False", "raises"}) =>
        /\ pc \notin {"save", "stats", "done"}
        /\ ~FilterFilesWritten

PreFilterCounters ==
    {"known", "revoked", "knownrevoked", "knownnotrevoked", "nocrl", "AKIs"}

\* C7: when the built filter has bit count zero, however the key lists
\* were obtained, verifyMLBF and saveMLBF do not run, no filter file is
\* written, and the stats.json of the finished run holds all the
\* pre-filter counters.
C7_EmptyFilterStillReports ==
    (cascade.origin # "none" /\ cascade.bits = 0) =>
        /\ pc \notin {"verify", "save"}
        /\ ~FilterFilesWritten
        /\ pc = "done" =>
               \E i \in 1..Len(writes) :
                   /\ writes[i].file = "stats.json"
                   /\ PreFilterCounters \subseteq DOMAIN writes[i].json

PrevBuildThere == args.previd /\ prevFiles.meta /\ prevFiles.base

\* C8: the filter is built from the previous build's metadata, and a patch
\* is written, only if a previous id was given and both files of the
\* previous build exist; diffMetaFile, diffBaseFile and patchFile are all
\* set or all unset; with a previous id and a file missing the build is a
\* fresh one, without patch or mlbf_diffsize, and the diff set-up goes on
\* to generateMLBF.
C8_LineageState ==
    /\ (args.diffMetaFile = NoPath) = (args.diffBaseFile = NoPath)
    /\ (args.diffBaseFile = NoPath) = (args.patchFile = NoPath)
    /\ cascade.origin = "loadDiffMeta" => PrevBuildThere
    /\ Written("filter.previd.patch") => PrevBuildThere
    /\ (args.previd /\ ~(prevFiles.meta /\ prevFiles.base)) =>
           /\ cascade.origin \in {"none", "cascade_with_characteristics"}
           /\ ~Written("filter.previd.patch")
           /\ "mlbf_diffsize" \notin DOMAIN stats

\* C8: the lineage conditions above hold in every state, and every step
\* out of the diff set-up leads to generateMLBF, previous files or not.
C8_Lineage ==
    /\ []C8_LineageState
    /\ [][pc = "diff" => pc' = "generate"]_vars

\* C8's case: a previous id with the metadata file missing, and the run
\* has written the filter of a fresh build.
C8_Witness ==
    /\ args.previd
    /\ prevFiles.base /\ ~prevFiles.meta
    /\ cascade.origin = "cascade_with_characteristics"
    /\ Written("filter")
    /\ pc = "done"

\* C9: a run that ends without error has written stats.json, once, and
\* as its last write: after the key-list files, the filter, the metadata
\* and the patch.
C9_StatsWrittenLast ==
    /\ \A i \in 1..Len(writes) :
           writes[i].file = "stats.json" => i = Len(writes)
    /\ pc = "done" =>
           /\ writes # <<>>
           /\ writes[Len(writes)].file = "stats.json"

\* C9's case: a finished run that wrote the key lists, the filter, the
\* metadata, the patch and then stats.json.
C9_Witness ==
    /\ pc = "done"
    /\ Len(writes) = 6
    /\ Written("keys-revoked")
    /\ Written("filter.previd.patch")

\* C10: getFPRs is never evaluated with an empty nonrevoked_certs: no run
\* ends in a division by zero, an empty knownPath included.
C10_NoDivisionByZero == pc # "ZeroDivisionError"

====
